---- MODULE Spec2Model ----
(***************************************************************************)
(* Multi-tenant TikTok Live relay: the TikTokService connection pool       *)
(* (services/TikTokService.js) driven by the Socket.io handlers of         *)
(* server.js.  One Node.js event loop: every action below is one task of   *)
(* that loop (a socket event handler, a timer callback, an upstream        *)
(* callback, or the continuation of an awaited handshake).                 *)
(***************************************************************************)
EXTENDS Integers, Sequences, FiniteSets, TLC

(* ------------------------------ bounds -------------------------------- *)
MaxSockets == 2     \* downstream sockets that may ever connect
MaxJoins   == 2     \* valid join-room requests the server gets to handle
MaxTicks   == 2     \* number of clock advances
MaxGiftValue == 120 \* gift values range over -2..MaxGiftValue
MaxBossEvents == 4  \* attack and gift events the Boss Raid page gets to handle
MaxArenaSteps == 12 \* clock advances of the Onslaught Arena page

(* ------------------------ program constants --------------------------- *)
CleanupInterval == 60000            \* setInterval period of the janitor
TIMEOUT == 5 * 60 * 1000            \* idle threshold of the janitor
ClockStep == TIMEOUT                \* the clock advances five janitor periods at a time

(* --------------------- JavaScript strings and values ------------------- *)
\* A string is a sequence of one-character strings.
UpperChars == <<"A","B","C","D","E","F","G","H","I","J","K","L","M",
                "N","O","P","Q","R","S","T","U","V","W","X","Y","Z">>
LowerChars == <<"a","b","c","d","e","f","g","h","i","j","k","l","m",
                "n","o","p","q","r","s","t","u","v","w","x","y","z">>
WhiteSpace == {" ", "\t", "\n"}

toLowerCaseChar(c) ==
  IF \E i \in 1..Len(UpperChars) : UpperChars[i] = c
  THEN LowerChars[CHOOSE i \in 1..Len(UpperChars) : UpperChars[i] = c]
  ELSE c

toLowerCase(str) == [i \in 1..Len(str) |-> toLowerCaseChar(str[i])]

RECURSIVE trimStart(_)
trimStart(str) ==
  IF str # <<>> /\ Head(str) \in WhiteSpace THEN trimStart(Tail(str)) ELSE str

RECURSIVE trimEnd(_)
trimEnd(str) ==
  IF str # <<>> /\ str[Len(str)] \in WhiteSpace
  THEN trimEnd(SubSeq(str, 1, Len(str) - 1))
  ELSE str

\* a trim that strips the leading white space only
trim_StartOnly(str) == trimStart(str)

trim(str) == trimEnd(trimStart(str))

\* A value received from a client: a string, undefined or a number.
JsString(str) == [type |-> "string", val |-> str]
JsUndefined   == [type |-> "undefined", val |-> <<>>]
JsNumber(ds)  == [type |-> "number", val |-> ds]

\* !username || typeof username !== "string"
InvalidUsername(v) == v.type # "string" \/ v.val = <<>>

\* username.toLowerCase().trim()
normalizedUsername(v) == trim(toLowerCase(v.val))

\* What clients send as the argument of join-room / leave-room.
RawUsernames == { JsString(<<"a">>), JsString(<<" ", "A">>), JsString(<<"b">>),
                  JsString(<<>>), JsUndefined, JsNumber(<<"4", "2">>) }
ValidRaw == { v \in RawUsernames : ~InvalidUsername(v) }
Tenants  == { normalizedUsername(v) : v \in ValidRaw }
NoUser   == <<>>

Sockets == 1..MaxSockets

(* ------------------------------ state --------------------------------- *)
VARIABLES
  connections,   \* this.connections : username -> [connection, lastActivity]
  roomClients,   \* this.roomClients : username -> count (a missing key reads as 0)
  handles,       \* every WebcastPushConnection ever created, by identity
  sockets,       \* downstream Socket.io sockets
  now,           \* Date.now()
  shutdown,      \* the SIGINT handler has run
  joins,         \* valid join-room requests handled so far
  out,           \* what the last task emitted, in order: messages and log lines
  boss,          \* Boss Raid page: gameState.boss and its pending respawn timers
  arena          \* Onslaught Arena page: keyStates, activeKeys and the timer table

vars == <<connections, roomClients, handles, sockets, now, shutdown, joins, out,
          boss, arena>>

(* ---------------------------- Socket.io -------------------------------- *)
\* sockets that are members of room `room`
RoomMembers(room) ==
  { s \in Sockets : sockets[s].status = "connected" /\ room \in sockets[s].rooms }

\* io.emit(ev, payload): every connected socket, whatever its rooms
Broadcast_ToAll(tenant, room, ev, payload) ==
  [ev |-> ev, tenant |-> tenant, kind |-> "room",
   to |-> { s \in Sockets : sockets[s].status = "connected" },
   h |-> 0, payload |-> payload]

\* io.to(room).emit(ev, payload) from a handler installed for tenant `tenant`
Broadcast(tenant, room, ev, payload) ==
  [ev |-> ev, tenant |-> tenant, kind |-> "room", to |-> RoomMembers(room),
   h |-> 0, payload |-> payload]

\* socket.emit(ev, ...) : reaches that socket only, and only while it is connected
Reply(s, ev, u) ==
  [ev |-> ev, tenant |-> u, kind |-> "socket",
   to |-> IF s \in Sockets /\ sockets[s].status = "connected" THEN {s} ELSE {},
   h |-> 0, payload |-> <<>>]

\* console.log / console.error line of the service about one username (only
\* the lines that tell the branches of the service apart are kept)
Log(line, u) ==
  [ev |-> line, tenant |-> u, kind |-> "log", to |-> {}, h |-> 0, payload |-> <<>>]

\* a call of the service into the upstream library: connection.connect() or
\* connection.disconnect() on handle h
UpstreamCall(method, h, u) ==
  [ev |-> method, tenant |-> u, kind |-> "upstream", to |-> {}, h |-> h,
   payload |-> <<>>]

(* ------------------------- SubscriberRegistry -------------------------- *)
\* this.roomClients.get(username) || 0
getClientCount(username) == roomClients[username]

MapSet(map, key, value) ==
  [k \in DOMAIN map \cup {key} |-> IF k = key THEN value ELSE map[k]]

MapDelete(map, keys) == [k \in DOMAIN map \ keys |-> map[k]]

addClientToRoom(username) ==
  [roomClients EXCEPT ![username] = getClientCount(username) + 1]

\* removeClientFromRoom without the count > 0 test
removeClientFromRoom_NoFloor(username) ==
  [roomClients EXCEPT ![username] = getClientCount(username) - 1]

removeClientFromRoom(username) ==
  IF getClientCount(username) > 0
  THEN [roomClients EXCEPT ![username] = getClientCount(username) - 1]
  ELSE roomClients

(* --------------------------- ConnectionPool ---------------------------- *)
\* A handle that is closed, or whose handshake failed, is inert: it emits
\* nothing and nothing refers to it any more.
ClosedHandle == [username |-> NoUser, state |-> "closed", cancelled |-> FALSE, caller |-> 0]

\* connection.disconnect() of the upstream library on one handle.  A handle
\* that is connected is closed unless the call throws.  On a handle whose
\* handshake is still pending the pending promise is not settled by the call:
\* it settles later, either way; `cancelled` remembers that disconnect() was
\* called on the handle before its handshake settled.
UpstreamDisconnect(hrec, thrown) ==
  IF hrec.state = "connected"
  THEN (IF thrown THEN hrec ELSE ClosedHandle)
  ELSE IF hrec.state = "connecting"
  THEN [hrec EXCEPT !.cancelled = TRUE]
  ELSE hrec

\* The handles stored in the pool entries of the usernames in S.
HandlesOf(S) == { connections[u].connection : u \in S \cap DOMAIN connections }

\* disconnect with the delete inside the try block, after the teardown
disconnect_DeleteInTry(S, throwing) ==
  /\ handles' = [h \in DOMAIN handles |->
                   IF h \in HandlesOf(S)
                   THEN UpstreamDisconnect(handles[h], h \in throwing)
                   ELSE handles[h]]
  /\ connections' = MapDelete(connections,
                       { u \in S \cap DOMAIN connections :
                           connections[u].connection \notin throwing })

\* disconnect(username) for every username in S (the calls are independent:
\* each touches its own key and its own handle); `throwing` are the handles
\* whose connection.disconnect() throws.
disconnect(S, throwing) ==
  /\ handles' = [h \in DOMAIN handles |->
                   IF h \in HandlesOf(S)
                   THEN UpstreamDisconnect(handles[h], h \in throwing)
                   ELSE handles[h]]
  /\ connections' = MapDelete(connections, S)

\* an updateActivity that refreshes every entry of the pool
updateActivity_TouchesAll(username) ==
  [w \in DOMAIN connections |-> [connections[w] EXCEPT !.lastActivity = now]]

\* updateActivity(username)
updateActivity(username) ==
  IF username \in DOMAIN connections
  THEN [connections EXCEPT ![username].lastActivity = now]
  ELSE connections

\* connect without the has() check: a second connection replaces the first
connectReuse_NoCheck(username) ==
  /\ handles' = Append(handles, [username |-> username, state |-> "connecting",
                                 cancelled |-> FALSE, caller |-> 0])
  /\ connections' = MapSet(connections, username,
                           [connection |-> Len(handles) + 1, lastActivity |-> now])

\* connect reusing the entry without refreshing lastActivity
connectReuse_NoRefresh(username) ==
  UNCHANGED <<boss, arena, connections, handles>>

\* connect(username, io), branch taken when this.connections.has(username)
connectReuse(username) ==
  /\ connections' = [connections EXCEPT ![username].lastActivity = now]
  /\ UNCHANGED handles

\* a creating branch that takes back a handle of the username that is still
\* open outside the pool instead of opening a new one
connectNew_Revives(username, s) ==
  LET open == { h \in DOMAIN handles :
                  handles[h].username = username /\ handles[h].state # "closed" } IN
  IF open # {}
  THEN /\ handles' = handles
       /\ connections' = MapSet(connections, username,
                                [connection |-> CHOOSE h \in open : TRUE,
                                 lastActivity |-> now])
  ELSE /\ handles' = Append(handles, [username |-> username, state |-> "connecting",
                                      cancelled |-> FALSE, caller |-> s])
       /\ connections' = MapSet(connections, username,
                                [connection |-> Len(handles) + 1, lastActivity |-> now])

\* connect(username, io), branch that creates the connection, stores it,
\* installs the handlers and awaits connection.connect() for caller s
connectNew(username, s) ==
  /\ handles' = Append(handles, [username |-> username, state |-> "connecting",
                                 cancelled |-> FALSE, caller |-> s])
  /\ connections' = MapSet(connections, username,
                           [connection |-> Len(handles) + 1, lastActivity |-> now])

(* ------------------------------ server.js ------------------------------ *)
\* io.on("connection") : a new socket object takes a free slot
SocketConnect(s) ==
  /\ ~shutdown
  /\ sockets[s].status = "free"
  /\ sockets' = [sockets EXCEPT ![s].status = "connected"]
  /\ out' = <<>>
  /\ UNCHANGED <<boss, arena, connections, roomClients, handles, now, shutdown, joins>>

\* a rejection that is announced with io.emit instead of socket.emit
JoinRoomInvalid_ToAll(s, v) ==
  /\ ~shutdown
  /\ sockets[s].status = "connected"
  /\ InvalidUsername(v)
  /\ out' = <<Broadcast_ToAll(NoUser, NoUser, "error", <<>>)>>
  /\ UNCHANGED <<boss, arena, connections, roomClients, handles, sockets, now, shutdown, joins>>

\* socket.on("join-room") with an invalid username
JoinRoomInvalid(s, v) ==
  /\ ~shutdown
  /\ sockets[s].status = "connected"
  /\ InvalidUsername(v)
  /\ out' = <<Reply(s, "error", NoUser)>>
  /\ UNCHANGED <<boss, arena, connections, roomClients, handles, sockets, now, shutdown, joins>>

\* socket.on("join-room") with a valid username
JoinRoom(s, v) ==
  /\ ~shutdown
  /\ sockets[s].status = "connected"
  /\ ~InvalidUsername(v)
  /\ joins < MaxJoins
  /\ joins' = joins + 1
  /\ LET u == normalizedUsername(v) IN
     /\ sockets' = [sockets EXCEPT ![s].tiktokUsername = u,
                                   ![s].rooms = @ \cup {u}]
     /\ roomClients' = addClientToRoom(u)
     /\ IF u \in DOMAIN connections
        THEN /\ connectReuse(u)
             /\ out' = <<Log("Reusing existing connection", u),
                         Reply(s, "room-joined", u)>>
        ELSE /\ connectNew(u, s)
             /\ out' = <<Log("Creating new connection", u),
                         UpstreamCall("connect", Len(handles) + 1, u)>>
  /\ UNCHANGED <<boss, arena, now, shutdown>>

\* socket.on("leave-room")
LeaveRoom(s, v) ==
  /\ ~shutdown
  /\ sockets[s].status = "connected"
  /\ v.type # "number"
  /\ IF v.val # <<>>
     THEN LET u == normalizedUsername(v) IN
          /\ sockets' = [sockets EXCEPT ![s].rooms = @ \ {u}]
          /\ roomClients' = removeClientFromRoom(u)
          /\ out' = <<Log("left room", u)>>
     ELSE /\ UNCHANGED <<boss, arena, sockets, roomClients>>
          /\ out' = <<>>
  /\ UNCHANGED <<boss, arena, connections, handles, now, shutdown, joins>>

\* a disconnect handler that also closes the connection of a room it empties
SocketDisconnect_ClosesEmptyRoom(s) ==
  /\ ~shutdown
  /\ sockets[s].status = "connected"
  /\ sockets' = [sockets EXCEPT ![s] = [status |-> "free", rooms |-> {},
                                        tiktokUsername |-> NoUser]]
  /\ roomClients' = IF sockets[s].tiktokUsername # NoUser
                    THEN removeClientFromRoom(sockets[s].tiktokUsername)
                    ELSE roomClients
  /\ handles' = [h \in DOMAIN handles |->
                   IF handles[h].caller = s
                   THEN [handles[h] EXCEPT !.caller = 0]
                   ELSE handles[h]]
  /\ connections' = MapDelete(connections,
                       { u \in {sockets[s].tiktokUsername} \cap Tenants :
                           getClientCount(u) = 1 })
  /\ out' = <<>>
  /\ UNCHANGED <<boss, arena, now, shutdown, joins>>

\* socket.on("disconnect") : Socket.io has already taken the socket out of its
\* rooms; the socket object is gone afterwards, and a join-room handler of it
\* that still awaits a handshake will emit to nobody
SocketDisconnect(s) ==
  /\ ~shutdown
  /\ sockets[s].status = "connected"
  /\ sockets' = [sockets EXCEPT ![s] = [status |-> "free", rooms |-> {},
                                        tiktokUsername |-> NoUser]]
  /\ roomClients' = IF sockets[s].tiktokUsername # NoUser
                    THEN removeClientFromRoom(sockets[s].tiktokUsername)
                    ELSE roomClients
  /\ handles' = [h \in DOMAIN handles |->
                   IF handles[h].caller = s
                   THEN [handles[h] EXCEPT !.caller = 0]
                   ELSE handles[h]]
  /\ out' = <<>>
  /\ UNCHANGED <<boss, arena, connections, now, shutdown, joins>>

(* ------------------- continuation of await connection.connect() -------- *)
\* a join-room handler that does not answer after a successful handshake
HandshakeSucceeds_Silent(h) ==
  /\ ~shutdown
  /\ handles[h].state = "connecting"
  /\ handles' = [handles EXCEPT ![h].state = "connected", ![h].caller = 0]
  /\ out' = <<>>
  /\ UNCHANGED <<boss, arena, connections, roomClients, sockets, now, shutdown, joins>>

\* the handshake of handle h resolves: connect returns true to the join-room
\* handler that awaited it, which answers its socket
HandshakeSucceeds(h) ==
  /\ ~shutdown
  /\ handles[h].state = "connecting"
  /\ handles' = [handles EXCEPT ![h].state = "connected", ![h].caller = 0]
  /\ out' = <<Reply(handles[h].caller, "room-joined", handles[h].username)>>
  /\ UNCHANGED <<boss, arena, connections, roomClients, sockets, now, shutdown, joins>>

\* a catch block that forgets this.connections.delete(username)
HandshakeFails_KeepsEntry(h) ==
  /\ ~shutdown
  /\ handles[h].state = "connecting"
  /\ handles' = [handles EXCEPT ![h] = ClosedHandle]
  /\ out' = <<Log("Cannot connect", handles[h].username),
              Reply(handles[h].caller, "connection-error", handles[h].username)>>
  /\ UNCHANGED <<boss, arena, connections, roomClients, sockets, now, shutdown, joins>>

\* a failing join that is rolled back: the caller leaves the room and the
\* count is decremented
HandshakeFails_RollsBack(h) ==
  /\ ~shutdown
  /\ handles[h].state = "connecting"
  /\ handles' = [handles EXCEPT ![h] = ClosedHandle]
  /\ connections' = MapDelete(connections, {handles[h].username})
  /\ sockets' = [sockets EXCEPT ![handles[h].caller].rooms = @ \ {handles[h].username}]
  /\ roomClients' = removeClientFromRoom(handles[h].username)
  /\ out' = <<Log("Cannot connect", handles[h].username),
              Reply(handles[h].caller, "connection-error", handles[h].username)>>
  /\ UNCHANGED <<boss, arena, now, shutdown, joins>>

\* the handshake of handle h rejects: the catch block deletes the entry of the
\* username and connect returns false
HandshakeFails(h) ==
  /\ ~shutdown
  /\ handles[h].state = "connecting"
  /\ handles' = [handles EXCEPT ![h] = ClosedHandle]
  /\ connections' = MapDelete(connections, {handles[h].username})
  /\ out' = <<Log("Cannot connect", handles[h].username),
              Reply(handles[h].caller, "connection-error", handles[h].username)>>
  /\ UNCHANGED <<boss, arena, roomClients, sockets, now, shutdown, joins>>

(* ----------------- upstream callbacks installed by connect ------------- *)
\* A handle emits events while it is connected, whether or not the pool
\* still references it: the handlers stay installed on the handle.
Emitting(h) == ~shutdown /\ handles[h].state = "connected"

\* the user object the handlers build from the raw payload
UserOf(data) == data.user

\* message === "join" || message === "thamgia"
IsJoin(message) ==
  message = <<"j","o","i","n">> \/ message = <<"t","h","a","m","g","i","a">>

\* message === "hit" || message === "danh" || message === "attack"
IsAttack(message) ==
  \/ message = <<"h","i","t">> \/ message = <<"d","a","n","h">>
  \/ message = <<"a","t","t","a","c","k">>

\* Math.floor(Math.random() * 10)
RandomTen == 0..9

\* connection.on("chat") ; r is Math.floor(Math.random() * 10)
OnChat(h, data) ==
  /\ Emitting(h)
  /\ LET username == handles[h].username
         message  == IF data.comment.type = "string"
                     THEN trim(toLowerCase(data.comment.val))
                     ELSE <<>>
         user     == UserOf(data)
     IN
     /\ connections' = updateActivity(username)
     /\ \E r \in (IF IsAttack(message) THEN RandomTen ELSE {0}) :
          out' = <<Broadcast(username, username, "tiktok_chat",
                             [user |-> user, comment |-> message, rawData |-> data])>>
                 \o (IF IsJoin(message)
                     THEN <<Broadcast(username, username, "player_join", [user |-> user])>>
                     ELSE <<>>)
                 \o (IF IsAttack(message)
                     THEN <<Broadcast(username, username, "player_attack",
                                      [user |-> user, damage |-> r + 5])>>
                     ELSE <<>>)
  /\ UNCHANGED <<boss, arena, roomClients, handles, sockets, now, shutdown, joins>>

\* connection.on("like")
OnLike(h, data) ==
  /\ Emitting(h)
  /\ LET username == handles[h].username IN
     /\ connections' = updateActivity(username)
     /\ out' = <<Broadcast(username, username, "tiktok_like",
                           [user |-> UserOf(data), likeCount |-> data.likeCount,
                            totalLikeCount |-> data.totalLikeCount])>>
  /\ UNCHANGED <<boss, arena, roomClients, handles, sockets, now, shutdown, joins>>

\* a "social" handler without the display-type filter
OnSocial_AnySubtype(h, data) ==
  /\ Emitting(h)
  /\ LET username == handles[h].username IN
     /\ connections' = updateActivity(username)
     /\ out' = <<Broadcast(username, username, "tiktok_share",
                           [user |-> UserOf(data)])>>
  /\ UNCHANGED <<boss, arena, roomClients, handles, sockets, now, shutdown, joins>>

\* connection.on("social")
OnSocial(h, data) ==
  /\ Emitting(h)
  /\ LET username == handles[h].username IN
     IF data.displayType = "pm_mt_msg_viewer_share"
     THEN /\ connections' = updateActivity(username)
          /\ out' = <<Broadcast(username, username, "tiktok_share",
                                [user |-> UserOf(data)])>>
     ELSE /\ UNCHANGED connections
          /\ out' = <<>>
  /\ UNCHANGED <<boss, arena, roomClients, handles, sockets, now, shutdown, joins>>

\* a ?? b of two optional numbers: only an undefined a gives way to b
OrElse_NonNull(a, b) == IF a # <<>> THEN a ELSE b

\* a || b of two optional numbers: <<>> is undefined, <<n>> the number n
OrElse(a, b) == IF a # <<>> /\ a[1] # 0 THEN a ELSE b

\* giftType with > where the code has >=
giftTypeOf_Strict(giftValue) ==
  IF giftValue > 100 THEN "large"
  ELSE IF giftValue > 10 THEN "medium"
  ELSE "small"

\* let giftType = "small"; if (giftValue >= 100) ... else if (giftValue >= 10) ...
giftTypeOf(giftValue) ==
  IF giftValue >= 100 THEN "large"
  ELSE IF giftValue >= 10 THEN "medium"
  ELSE "small"

\* a "gift" handler that emits the generic event only
OnGift_GenericOnly(h, data) ==
  /\ Emitting(h)
  /\ LET username  == handles[h].username
         giftValue == OrElse(OrElse(data.diamondCount, data.giftValue), <<1>>)[1]
     IN
     /\ connections' = updateActivity(username)
     /\ out' = <<Broadcast(username, username, "tiktok_gift",
                           [user |-> UserOf(data), giftName |-> data.giftName,
                            giftValue |-> giftValue,
                            repeatCount |-> OrElse(data.repeatCount, <<1>>)[1],
                            giftType |-> giftTypeOf(giftValue), rawData |-> data])>>
  /\ UNCHANGED <<boss, arena, roomClients, handles, sockets, now, shutdown, joins>>

\* a "gift" handler that emits the legacy event before the generic one
OnGift_LegacyFirst(h, data) ==
  /\ Emitting(h)
  /\ LET username  == handles[h].username
         giftValue == OrElse(OrElse(data.diamondCount, data.giftValue), <<1>>)[1]
         payload   == [user |-> UserOf(data), giftName |-> data.giftName,
                       giftValue |-> giftValue,
                       repeatCount |-> OrElse(data.repeatCount, <<1>>)[1],
                       giftType |-> giftTypeOf(giftValue)]
     IN
     /\ connections' = updateActivity(username)
     /\ out' = <<Broadcast(username, username, "gift_received", payload),
                 Broadcast(username, username, "tiktok_gift", payload)>>
  /\ UNCHANGED <<boss, arena, roomClients, handles, sockets, now, shutdown, joins>>

\* connection.on("gift")
OnGift(h, data) ==
  /\ Emitting(h)
  /\ LET username    == handles[h].username
         user        == UserOf(data)
         giftValue   == OrElse(OrElse(data.diamondCount, data.giftValue), <<1>>)[1]
         giftName    == IF data.giftName # <<>> THEN data.giftName
                        ELSE IF data.giftDetailsName # <<>> THEN data.giftDetailsName
                        ELSE <<"Unknown Gift">>
         repeatCount == OrElse(data.repeatCount, <<1>>)[1]
         giftType    == giftTypeOf(giftValue)
         payload     == [user |-> user, giftName |-> giftName, giftValue |-> giftValue,
                         repeatCount |-> repeatCount, giftType |-> giftType]
     IN
     /\ connections' = updateActivity(username)
     /\ out' = <<Broadcast(username, username, "tiktok_gift",
                           [user |-> user, giftName |-> giftName,
                            giftValue |-> giftValue, repeatCount |-> repeatCount,
                            giftType |-> giftType, rawData |-> data]),
                 Broadcast(username, username, "gift_received", payload)>>
  /\ UNCHANGED <<boss, arena, roomClients, handles, sockets, now, shutdown, joins>>

\* connection.on("connected")
OnConnected(h, state) ==
  /\ Emitting(h)
  /\ LET username == handles[h].username IN
     out' = <<Broadcast(username, username, "tiktok_connected",
                        [roomId |-> state.roomId])>>
  /\ UNCHANGED <<boss, arena, connections, roomClients, handles, sockets, now, shutdown, joins>>

\* a "disconnected" handler that keeps the pool entry
OnDisconnected_KeepsEntry(h) ==
  /\ Emitting(h)
  /\ LET username == handles[h].username IN
     out' = <<Broadcast(username, username, "tiktok_disconnected", <<>>)>>
  /\ handles' = [handles EXCEPT ![h] = ClosedHandle]
  /\ UNCHANGED <<boss, arena, connections, roomClients, sockets, now, shutdown, joins>>

\* a "disconnected" handler that reconnects at once while the room has clients
OnDisconnected_Reconnects(h) ==
  /\ Emitting(h)
  /\ LET username == handles[h].username
         closed == [handles EXCEPT ![h] = ClosedHandle] IN
     /\ out' = <<Broadcast(username, username, "tiktok_disconnected", <<>>)>>
     /\ IF getClientCount(username) > 0
        THEN /\ handles' = Append(closed, [username |-> username, state |-> "connecting",
                                           cancelled |-> FALSE, caller |-> handles[h].caller])
             /\ connections' = MapSet(connections, username,
                                      [connection |-> Len(handles) + 1, lastActivity |-> now])
        ELSE /\ handles' = closed
             /\ connections' = MapDelete(connections, {username})
  /\ UNCHANGED <<boss, arena, roomClients, sockets, now, shutdown, joins>>

\* connection.on("disconnected") : the upstream side has closed the handle
OnDisconnected(h) ==
  /\ Emitting(h)
  /\ LET username == handles[h].username IN
     /\ out' = <<Broadcast(username, username, "tiktok_disconnected", <<>>)>>
     /\ connections' = MapDelete(connections, {username})
  /\ handles' = [handles EXCEPT ![h] = ClosedHandle]
  /\ UNCHANGED <<boss, arena, roomClients, sockets, now, shutdown, joins>>

\* an "error" handler that also drops the pool entry
OnError_Fatal(h, err) ==
  /\ Emitting(h)
  /\ LET username == handles[h].username IN
     /\ out' = <<Broadcast(username, username, "tiktok_error",
                           [message |-> err.message])>>
     /\ connections' = MapDelete(connections, {username})
  /\ UNCHANGED <<boss, arena, roomClients, handles, sockets, now, shutdown, joins>>

\* connection.on("error")
OnError(h, err) ==
  /\ Emitting(h)
  /\ LET username == handles[h].username IN
     out' = <<Broadcast(username, username, "tiktok_error",
                        [message |-> err.message])>>
  /\ UNCHANGED <<boss, arena, connections, roomClients, handles, sockets, now, shutdown, joins>>

(* what the upstream library delivers to the handlers *)
Users == {"u1"}
ChatData == { [comment |-> c, user |-> u] :
                c \in { JsString(<<" ", "H", "i", "t">>), JsString(<<"J", "o", "i", "n">>),
                        JsString(<<"g", "g">>), JsUndefined },
                u \in Users }
LikeData == { [likeCount |-> 1, totalLikeCount |-> 7, user |-> u] : u \in Users }
SocialData == { [displayType |-> d, user |-> u] :
                  d \in {"pm_mt_msg_viewer_share", "pm_main_follow_message_viewer_2"},
                  u \in Users }
GiftData == { [diamondCount |-> d, giftValue |-> g, giftName |-> <<"Lion">>,
               giftDetailsName |-> <<>>, repeatCount |-> <<1>>, user |-> u] :
                d \in {<<>>, <<0>>, <<150>>}, g \in {<<>>, <<50>>}, u \in Users }
\* chat comments in mixed case, with white space around and inside, the five
\* commands and near misses
WideComments ==
  {
    JsString(<<" ", "H", "i", "t">>),
    JsString(<<"J", "O", "I", "N", " ">>),
    JsString(<<"T", "h", "a", "m", "G", "i", "a">>),
    JsString(<<"d", "a", "n", "h", "\n">>),
    JsString(<<"\t", "A", "t", "t", "a", "c", "k">>),
    JsString(<<"h", "i", "t">>),
    JsString(<<"h", "i", "t", " ", "m", "e">>),
    JsString(<<"j", "o", "i", "n", "e", "d">>),
    JsString(<<"h", " ", "i", "t">>),
    JsString(<<"g", "g">>),
    JsString(<<" ", " ">>),
    JsUndefined
  }
WideUsers == {"u1", "u2"}
WideChatData == { [comment |-> c, user |-> u] : c \in WideComments, u \in WideUsers }

\* gifts whose diamondCount and giftValue are absent, zero or any integer of
\* the range
WideGiftData ==
  { [diamondCount |-> d, giftValue |-> g, giftName |-> <<"Lion">>,
     giftDetailsName |-> <<>>, repeatCount |-> <<1>>, user |-> "u1"] :
      d \in {<<>>} \cup { <<n>> : n \in (0 - 2)..MaxGiftValue },
      g \in {<<>>, <<100>>} }

ConnectedData == { [roomId |-> "r1"] }
ErrorData == { [message |-> "e1"] }

(* ------------------------------ Janitor -------------------------------- *)
\* the sweep without the clientCount === 0 guard
Inactive_IgnoresCount ==
  { u \in DOMAIN connections : now - connections[u].lastActivity > TIMEOUT }

\* the sweep with >= TIMEOUT
Inactive_AtThreshold ==
  { u \in DOMAIN connections :
      getClientCount(u) = 0 /\ now - connections[u].lastActivity >= TIMEOUT }

\* the usernames checkInactiveConnections disconnects
Inactive ==
  { u \in DOMAIN connections :
      getClientCount(u) = 0 /\ now - connections[u].lastActivity > TIMEOUT }

\* the entries of S in the iteration order of the Map (insertion order: an
\* entry is inserted together with its handle)
RECURSIVE EntriesInOrder(_, _)
EntriesInOrder(S, h) ==
  IF h > Len(handles) THEN <<>>
  ELSE (IF \E u \in S : connections[u].connection = h
        THEN <<handles[h].username>> ELSE <<>>) \o EntriesInOrder(S, h + 1)

\* what the sweep emits: per evicted username its log line, then the teardown
\* request of disconnect(username)
RECURSIVE AutoDisconnectOut(_)
AutoDisconnectOut(order) ==
  IF order = <<>> THEN <<>>
  ELSE <<Log("Auto-disconnect", Head(order)),
         UpstreamCall("disconnect", connections[Head(order)].connection, Head(order))>>
       \o AutoDisconnectOut(Tail(order))

\* setInterval(() => this.checkInactiveConnections(), 60000)
checkInactiveConnections ==
  /\ ~shutdown
  /\ now % CleanupInterval = 0
  /\ \E throwing \in SUBSET HandlesOf(Inactive) : disconnect(Inactive, throwing)
  /\ out' = AutoDisconnectOut(EntriesInOrder(Inactive, 1))
  /\ UNCHANGED <<boss, arena, roomClients, sockets, now, shutdown, joins>>

\* process.on("SIGINT") : the model follows the process up to this handler
Shutdown ==
  /\ ~shutdown
  /\ \E throwing \in SUBSET HandlesOf(DOMAIN connections) :
        disconnect(DOMAIN connections, throwing)
  /\ shutdown' = TRUE
  /\ out' = LET order == EntriesInOrder(DOMAIN connections, 1)
             IN  <<Log("Shutting down", NoUser)>> \o
                 [i \in 1..Len(order) |->
                    UpstreamCall("disconnect", connections[order[i]].connection, order[i])]
  /\ UNCHANGED <<boss, arena, roomClients, sockets, now, joins>>

\* disconnect(username) called directly
Disconnect(u) ==
  /\ ~shutdown
  /\ \E throwing \in SUBSET HandlesOf({u}) : disconnect({u}, throwing)
  /\ out' = IF u \in DOMAIN connections
            THEN <<UpstreamCall("disconnect", connections[u].connection, u)>>
            ELSE <<>>
  /\ UNCHANGED <<boss, arena, roomClients, sockets, now, shutdown, joins>>

\* passage of time
Tick ==
  /\ ~shutdown
  /\ now < MaxTicks * ClockStep
  /\ now' = now + ClockStep
  /\ out' = <<>>
  /\ UNCHANGED <<boss, arena, connections, roomClients, handles, sockets, shutdown, joins>>

(* ------------------- Boss Raid page (boss-raid/game.js) ----------------- *)
\* gameState.boss.maxHp and currentHp when the page has loaded
BossHp == 10000

Max(a, b) == IF a >= b THEN a ELSE b
Min(a, b) == IF a <= b THEN a ELSE b

\* damage of player_attack events (the server draws 5..14) and the gifts of
\* the three types
AttackDamages == {5, 14}
BossGifts ==
  { [giftType |-> "small",  giftValue |-> 1,   repeatCount |-> 1],
    [giftType |-> "small",  giftValue |-> 9,   repeatCount |-> 2],
    [giftType |-> "medium", giftValue |-> 50,  repeatCount |-> 1],
    [giftType |-> "large",  giftValue |-> 100, repeatCount |-> 1],
    [giftType |-> "large",  giftValue |-> 120, repeatCount |-> 2] }

BossInit == [maxHp |-> BossHp, currentHp |-> BossHp, respawnTimers |-> 0, events |-> 0]

\* bossDefeated(): schedules the respawn with setTimeout(..., 3000)
bossDefeated(b) == [b EXCEPT !.respawnTimers = @ + 1]

\* "Check boss defeated" at the end of both handlers
checkDefeated(b) == IF b.currentHp <= 0 THEN bossDefeated(b) ELSE b

\* socket.on("player_attack")
OnPlayerAttack(damage) ==
  /\ boss.events < MaxBossEvents
  /\ boss' = checkDefeated([boss EXCEPT !.currentHp = Max(0, @ - damage),
                                        !.events = @ + 1])
  /\ UNCHANGED <<connections, roomClients, handles, sockets, now, shutdown, joins,
                 out, arena>>

\* socket.on("gift_received")
OnGiftReceived(data) ==
  /\ boss.events < MaxBossEvents
  /\ LET amount == data.giftValue * data.repeatCount
         hp == CASE data.giftType = "small"  -> Min(boss.maxHp, boss.currentHp + amount * 5)
                 [] data.giftType = "medium" -> Max(0, boss.currentHp - amount * 10)
                 [] data.giftType = "large"  -> Max(0, boss.currentHp - amount * 50)
                 [] OTHER -> boss.currentHp
     IN boss' = checkDefeated([boss EXCEPT !.currentHp = hp, !.events = @ + 1])
  /\ UNCHANGED <<connections, roomClients, handles, sockets, now, shutdown, joins,
                 out, arena>>

\* the callback of the 3 s timer of bossDefeated
RespawnTimer ==
  /\ boss.respawnTimers > 0
  /\ boss' = [boss EXCEPT !.maxHp = (boss.maxHp * 3) \div 2,
                          !.currentHp = (boss.maxHp * 3) \div 2,
                          !.respawnTimers = @ - 1]
  /\ UNCHANGED <<connections, roomClients, handles, sockets, now, shutdown, joins,
                 out, arena>>

(* ---------- Onslaught Arena page (onslaught-arena/js/tiktok-mod.js) ------ *)
KEY_PULSE_MS == 500
\* the clock of the page advances by this many milliseconds
ArenaStep == 100

\* the keys the mod presses (horde.Keyboard.Keys)
Keys == [W |-> 87, FIRE |-> 32, X |-> 88]
KeyCodes == { Keys.W, Keys.FIRE, Keys.X }

\* the calls of pressKey the handlers make: a movement command, a firing
\* command, one round of rapid fire, the ultimate
ArenaPresses ==
  { [keyCode |-> Keys.W,    duration |-> KEY_PULSE_MS],
    [keyCode |-> Keys.FIRE, duration |-> 200],
    [keyCode |-> Keys.FIRE, duration |-> 100],
    [keyCode |-> Keys.X,    duration |-> 1000] }

\* activeKeys[k] = 0: no property k.  A timer is identified by its key and
\* its time of expiry.
ArenaInit ==
  [keyStates |-> [k \in KeyCodes |-> FALSE], activeKeys |-> [k \in KeyCodes |-> 0],
   timers |-> {}, clock |-> 0]

\* a pressKey that does not clear the pending timeout
pressKey_NoClear(keyCode, duration, engine) ==
  /\ arena.clock + duration <= MaxArenaSteps * ArenaStep
  /\ IF ~engine
     THEN UNCHANGED arena
     ELSE arena' = [arena EXCEPT
            !.keyStates[keyCode] = TRUE,
            !.timers = @ \cup {[keyCode |-> keyCode, at |-> arena.clock + duration]},
            !.activeKeys[keyCode] = arena.clock + duration]
  /\ UNCHANGED <<connections, roomClients, handles, sockets, now, shutdown, joins,
                 out, boss>>

\* pressKey(keyCode, duration); engine: window.gameEngine.keyboard exists
pressKey(keyCode, duration, engine) ==
  /\ arena.clock + duration <= MaxArenaSteps * ArenaStep
  /\ IF ~engine
     THEN UNCHANGED arena
     ELSE LET cleared == IF arena.activeKeys[keyCode] # 0
                         THEN arena.timers \ {[keyCode |-> keyCode,
                                               at |-> arena.activeKeys[keyCode]]}
                         ELSE arena.timers
          IN arena' = [arena EXCEPT
               !.keyStates[keyCode] = TRUE,
               !.timers = cleared \cup {[keyCode |-> keyCode,
                                         at |-> arena.clock + duration]},
               !.activeKeys[keyCode] = arena.clock + duration]
  /\ UNCHANGED <<connections, roomClients, handles, sockets, now, shutdown, joins,
                 out, boss>>

\* the callback of the timeout set by pressKey, run when the timer expires
ReleaseTimer(t) ==
  /\ t \in arena.timers
  /\ t.at = arena.clock
  /\ arena' = [arena EXCEPT !.keyStates[t.keyCode] = FALSE,
                            !.activeKeys[t.keyCode] = 0,
                            !.timers = @ \ {t}]
  /\ UNCHANGED <<connections, roomClients, handles, sockets, now, shutdown, joins,
                 out, boss>>

\* time passes on the page; an expired timer runs before the clock moves on
ArenaTick ==
  /\ arena.clock < MaxArenaSteps * ArenaStep
  /\ \A t \in arena.timers : t.at > arena.clock
  /\ arena' = [arena EXCEPT !.clock = @ + ArenaStep]
  /\ UNCHANGED <<connections, roomClients, handles, sockets, now, shutdown, joins,
                 out, boss>>

(* ---------------------------- specification ---------------------------- *)
Init ==
  /\ boss = BossInit
  /\ arena = ArenaInit
  /\ connections = <<>>
  /\ roomClients = [u \in Tenants |-> 0]
  /\ handles = <<>>
  /\ sockets = [s \in Sockets |-> [status |-> "free", rooms |-> {}, tiktokUsername |-> NoUser]]
  /\ now = 0
  /\ joins = 0
  /\ shutdown = FALSE
  /\ out = <<>>

\* tasks started by the downstream sockets and by settling handshakes
ServerNext ==
  \/ \E s \in Sockets : SocketConnect(s)
  \/ \E s \in Sockets, v \in RawUsernames : JoinRoomInvalid(s, v)
  \/ \E s \in Sockets, v \in RawUsernames : JoinRoom(s, v)
  \/ \E s \in Sockets, v \in RawUsernames : LeaveRoom(s, v)
  \/ \E s \in Sockets : SocketDisconnect(s)
  \/ \E h \in DOMAIN handles : HandshakeSucceeds(h)
  \/ \E h \in DOMAIN handles : HandshakeFails(h)

\* upstream callbacks that only relay an event (and refresh lastActivity)
RelayNext ==
  \/ \E h \in DOMAIN handles, data \in ChatData : OnChat(h, data)
  \/ \E h \in DOMAIN handles, data \in SocialData : OnSocial(h, data)
  \/ \E h \in DOMAIN handles, data \in GiftData : OnGift(h, data)
  \/ \E h \in DOMAIN handles, state \in ConnectedData : OnConnected(h, state)
  \/ \E h \in DOMAIN handles, err \in ErrorData : OnError(h, err)

Next ==
  \/ ServerNext
  \/ RelayNext
  \/ \E h \in DOMAIN handles, data \in LikeData : OnLike(h, data)
  \/ \E h \in DOMAIN handles : OnDisconnected(h)
  \/ checkInactiveConnections
  \/ Shutdown
  \/ Tick

\* The whole program.
Spec == Init /\ [][Next]_vars

\* The pool and the registry under the server, the janitor, the clock and
\* SIGINT.  Of the relaying callbacks only "like" is kept: chat, social and
\* gift act on the pool exactly as it does (updateActivity), "connected" and
\* "error" do not act on it at all.
PoolNext ==
  \/ ServerNext
  \/ \E h \in DOMAIN handles, data \in LikeData : OnLike(h, data)
  \/ \E h \in DOMAIN handles : OnDisconnected(h)
  \/ checkInactiveConnections
  \/ Shutdown
  \/ Tick

SpecPool == Init /\ [][PoolNext]_vars

\* The same with the timers of the process running: time passes and the
\* interval timer of the janitor fires.
SpecPoolFair == SpecPool /\ WF_vars(Tick) /\ WF_vars(checkInactiveConnections)

\* The service under the server, with its public disconnect(username) called
\* by any caller at any moment (one instant of the clock).
ServiceNext ==
  \/ ServerNext
  \/ \E h \in DOMAIN handles : OnDisconnected(h)
  \/ \E u \in Tenants : Disconnect(u)

SpecService == Init /\ [][ServiceNext]_vars

\* The same, with every pending handshake settling eventually: the upstream
\* library resolves or rejects the promise of connection.connect().
Settles(h) == h \in DOMAIN handles /\ (HandshakeSucceeds(h) \/ HandshakeFails(h))

SpecServiceFair == SpecService /\ \A h \in 1..MaxJoins : WF_vars(Settles(h))

\* Every upstream callback under the server, at one instant of the clock.
EventsNext ==
  \/ ServerNext
  \/ RelayNext
  \/ \E h \in DOMAIN handles, data \in LikeData : OnLike(h, data)
  \/ \E h \in DOMAIN handles : OnDisconnected(h)

SpecEvents == Init /\ [][EventsNext]_vars

\* The life cycle of the pool entries: everything that can create, refresh
\* or remove an entry (the server, the janitor, SIGINT, a direct disconnect,
\* the upstream "disconnected" signal), with the status callbacks "connected"
\* and "error".
LifecycleNext ==
  \/ ServerNext
  \/ \E h \in DOMAIN handles : OnDisconnected(h)
  \/ checkInactiveConnections
  \/ Shutdown
  \/ Tick
  \/ \E u \in Tenants : Disconnect(u)
  \/ \E h \in DOMAIN handles, state \in ConnectedData : OnConnected(h, state)
  \/ \E h \in DOMAIN handles, err \in ErrorData : OnError(h, err)

SpecLifecycle == Init /\ [][LifecycleNext]_vars

\* The "social" callback with the server and the clock: share and other
\* social events of the connected handles at different times.
SocialNext ==
  \/ ServerNext
  \/ \E h \in DOMAIN handles, data \in SocialData : OnSocial(h, data)
  \/ Tick

SpecSocial == Init /\ [][SocialNext]_vars

\* The chat and gift callbacks as functions of the raw event.  The start is
\* the server after the sockets of `members` have joined the room of one
\* tenant whose handshake has succeeded; the callbacks are then applied to
\* every raw event of the wide input sets.
InitRelay ==
  \E t \in Tenants, members \in SUBSET Sockets :
    /\ members # {}
    /\ Cardinality(members) <= MaxJoins
    /\ boss = BossInit
    /\ arena = ArenaInit
    /\ connections = MapSet(<<>>, t, [connection |-> 1, lastActivity |-> 0])
    /\ roomClients = [u \in Tenants |-> IF u = t THEN Cardinality(members) ELSE 0]
    /\ handles = <<[username |-> t, state |-> "connected", cancelled |-> FALSE,
                    caller |-> 0]>>
    /\ sockets = [s \in Sockets |->
                    IF s \in members
                    THEN [status |-> "connected", rooms |-> {t}, tiktokUsername |-> t]
                    ELSE [status |-> "free", rooms |-> {}, tiktokUsername |-> NoUser]]
    /\ now = 0
    /\ joins = Cardinality(members)
    /\ shutdown = FALSE
    /\ out = <<>>

NormalizerNext ==
  \/ \E data \in WideChatData : OnChat(1, data)
  \/ \E data \in WideGiftData : OnGift(1, data)

SpecNormalizer == InitRelay /\ [][NormalizerNext]_vars

\* The Boss Raid page: the two handlers that change the boss and the respawn
\* timer.
BossNext ==
  \/ \E damage \in AttackDamages : OnPlayerAttack(damage)
  \/ \E data \in BossGifts : OnGiftReceived(data)
  \/ RespawnTimer

SpecBoss == Init /\ [][BossNext]_vars

\* The Onslaught Arena page: pressKey as the handlers call it, the release
\* timers and the clock of the page.
ArenaNext ==
  \/ \E p \in ArenaPresses, engine \in BOOLEAN : pressKey(p.keyCode, p.duration, engine)
  \/ \E t \in arena.timers : ReleaseTimer(t)
  \/ ArenaTick

SpecArena == Init /\ [][ArenaNext]_vars

\* The same with the browser running: the clock advances and an expired
\* timer gets its callback run.
SpecArenaFair ==
  SpecArena /\ WF_vars(ArenaTick) /\ WF_vars(\E t \in arena.timers : ReleaseTimer(t))

(* ---------------------- TikTokBridge (client side) --------------------- *)
\* The listeners TikTokBridge.connect installs on its socket: the bridge
\* event each server event is dispatched as ("none": no listener).
BridgeEvent(ev) ==
  CASE ev = "room-joined"         -> "connected"
    [] ev = "tiktok_chat"         -> "chat"
    [] ev = "tiktok_gift"         -> "gift"
    [] ev = "gift_received"       -> "gift"
    [] ev = "tiktok_like"         -> "like"
    [] ev = "tiktok_share"        -> "share"
    [] ev = "tiktok_disconnected" -> "disconnected"
    [] OTHER                      -> "none"

\* eventHandlers after the Onslaught Arena mod has registered its callbacks
\* with TikTokBridge.on
eventHandlers ==
  [chat |-> <<"modChat">>, gift |-> <<"modGift">>, like |-> <<>>, share |-> <<>>,
   connected |-> <<"modConnected">>, disconnected |-> <<>>, none |-> <<>>]

\* _dispatch(event, data): every handler of the event is called once with data
dispatch(event, data) ==
  [k \in DOMAIN eventHandlers[event] |->
     [handler |-> eventHandlers[event][k], event |-> event, data |-> data]]

\* the messages of an output that reach the socket s of a bridge
ReceivedBy(o, s) ==
  SelectSeq(o, LAMBDA m : m.kind \in {"room", "socket"} /\ s \in m.to)

RECURSIVE DispatchAll(_)
DispatchAll(msgs) ==
  IF msgs = <<>> THEN <<>>
  ELSE dispatch(BridgeEvent(Head(msgs).ev), Head(msgs).payload) \o DispatchAll(Tail(msgs))

\* the handler calls the bridge on socket s makes for the output of one task
BridgeCalls(o, s) == DispatchAll(ReceivedBy(o, s))

(* ------------------------------- claims -------------------------------- *)
\* positions of the calls of `method` on handles of tenant t in an output
CallsIn(o, method, t) ==
  { i \in DOMAIN o : o[i].kind = "upstream" /\ o[i].ev = method /\ o[i].tenant = t }

\* the upstream handles of tenant t that are connecting or connected
LiveHandles(t) ==
  { h \in DOMAIN handles :
      handles[h].username = t /\ handles[h].state \in {"connecting", "connected"} }

\* C1: of two overlapping connect(t) calls for a tenant without pool entry,
\* the first (which finds no entry) starts exactly one upstream handshake and
\* the second (which starts while that handshake is still in flight) starts
\* none and keeps the entry's handle: one handshake in all.
C1_RaceSafeConnect ==
  [][\A s \in Sockets, v \in ValidRaw :
       LET t == normalizedUsername(v) IN
       JoinRoom(s, v) =>
         IF t \in DOMAIN connections
         THEN handles[connections[t].connection].state = "connecting" =>
                /\ handles' = handles
                /\ CallsIn(out', "connect", t) = {}
                /\ connections'[t].connection = connections[t].connection
         ELSE /\ Cardinality(CallsIn(out', "connect", t)) = 1
              /\ Len(handles') = Len(handles) + 1
              /\ LiveHandles(t)' = LiveHandles(t) \cup {connections'[t].connection}]_vars

\* a second connect(t) has just run while the only handshake ever started is
\* still in flight
C1_Witness ==
  \E t \in DOMAIN connections, s \in Sockets :
    /\ Len(handles) = 1
    /\ connections[t].connection = 1
    /\ handles[1].state = "connecting"
    /\ joins = 2
    /\ out = <<Log("Reusing existing connection", t), Reply(s, "room-joined", t)>>

\* C2: every tenant has at most one upstream connection that is connecting
\* or connected.
C2_OneLiveConnectionPerTenant ==
  \A t \in Tenants : Cardinality(LiveHandles(t)) <= 1

\* C3: a handle on which disconnect() was called while its handshake was in
\* flight is, once that handshake has succeeded, torn down and in no pool entry.
C3_DisconnectDuringConnectWins ==
  \A h \in DOMAIN handles :
    handles[h].cancelled /\ handles[h].state # "connecting" =>
      /\ handles[h].state = "closed"
      /\ \A u \in DOMAIN connections : connections[u].connection # h

\* C4: an event relayed from tenant A's upstream connection reaches only
\* connected sockets that are members of room A.
C4_RoomIsolation ==
  \A i \in DOMAIN out :
    out[i].kind = "room" =>
      \A s \in out[i].to :
        sockets[s].status = "connected" /\ out[i].tenant \in sockets[s].rooms

\* an event of one tenant was delivered while a socket sat in another room only
C4_Witness ==
  \E i \in DOMAIN out, s \in Sockets :
    /\ out[i].kind = "room"
    /\ out[i].to # {}
    /\ sockets[s].status = "connected"
    /\ sockets[s].rooms # {}
    /\ out[i].tenant \notin sockets[s].rooms

\* C5: a janitor sweep leaves every tenant whose subscriber count is above 0
\* alone: entry, handle and lastActivity unchanged, no teardown requested.
C5_JanitorSparesSubscribed ==
  [][checkInactiveConnections =>
       \A u \in DOMAIN connections :
         getClientCount(u) > 0 =>
           /\ u \in DOMAIN connections'
           /\ connections'[u] = connections[u]
           /\ handles'[connections[u].connection] = handles[connections[u].connection]
           /\ CallsIn(out', "disconnect", u) = {}]_vars

\* a sweep has evicted one tenant and spared another that is as idle but has
\* a subscriber
C5_Witness ==
  \E u \in DOMAIN connections, i \in DOMAIN out :
    /\ out[i].ev = "Auto-disconnect"
    /\ getClientCount(u) > 0
    /\ now - connections[u].lastActivity > TIMEOUT

\* C6: the janitor never disconnects a tenant whose room still has a connected
\* member.
C6_JanitorSparesOccupiedRooms ==
  \A i \in DOMAIN out :
    out[i].ev = "Auto-disconnect" => RoomMembers(out[i].tenant) = {}

\* C7: a sweep evicts every entry with count 0 that has been idle for more
\* than TIMEOUT (teardown requested, entry gone when the sweep ends) and keeps
\* an entry that has been idle for exactly TIMEOUT.
C7_IdleEviction ==
  [][checkInactiveConnections =>
       \A u \in DOMAIN connections :
         /\ (getClientCount(u) = 0 /\ now - connections[u].lastActivity > TIMEOUT =>
               /\ u \notin DOMAIN connections'
               /\ \E i \in CallsIn(out', "disconnect", u) :
                    out'[i].h = connections[u].connection)
         /\ (now - connections[u].lastActivity = TIMEOUT =>
               /\ u \in DOMAIN connections'
               /\ connections'[u] = connections[u])]_vars

\* a sweep has evicted one tenant and kept an unsubscribed one that has been
\* idle for exactly TIMEOUT
C7_Witness ==
  \E u \in DOMAIN connections, i \in DOMAIN out :
    /\ out[i].ev = "Auto-disconnect"
    /\ getClientCount(u) = 0
    /\ now - connections[u].lastActivity = TIMEOUT

\* C8: connect(t) on an entry whose handshake has succeeded starts no
\* handshake, answers true (room-joined to the caller), keeps the handle and
\* sets lastActivity to the current time.
C8_IdempotentConnect ==
  [][\A s \in Sockets, v \in ValidRaw :
       LET t == normalizedUsername(v) IN
       (/\ JoinRoom(s, v)
        /\ t \in DOMAIN connections
        /\ handles[connections[t].connection].state = "connected") =>
         /\ handles' = handles
         /\ CallsIn(out', "connect", t) = {}
         /\ \E i \in DOMAIN out' :
              out'[i].ev = "room-joined" /\ out'[i].to = {s} /\ out'[i].tenant = t
         /\ \A i \in DOMAIN out' : out'[i].ev # "connection-error"
         /\ connections'[t].connection = connections[t].connection
         /\ connections'[t].lastActivity = now]_vars

\* a second connect(t) has just reused, at a later time, the one handle ever
\* created, whose handshake had succeeded
C8_Witness ==
  \E t \in DOMAIN connections, s \in Sockets :
    /\ Len(handles) = 1
    /\ connections[t].connection = 1
    /\ handles[1].state = "connected"
    /\ now > 0
    /\ connections[t].lastActivity = now
    /\ out = <<Log("Reusing existing connection", t), Reply(s, "room-joined", t)>>

\* C9: when the handshake of connect(t) fails, the caller is answered false
\* (connection-error, to that socket at most), t has no pool entry, the handle
\* is not left connecting, and nothing is broadcast to a room.
C9_FailedHandshake ==
  [][\A h \in DOMAIN handles :
       HandshakeFails(h) =>
         LET t == handles[h].username IN
         /\ t \notin DOMAIN connections'
         /\ handles'[h].state = "closed"
         /\ \A i \in DOMAIN out' : out'[i].kind # "room" /\ out'[i].ev # "room-joined"
         /\ \E i \in DOMAIN out' :
              /\ out'[i].ev = "connection-error"
              /\ out'[i].tenant = t
              /\ out'[i].to \subseteq {handles[h].caller}]_vars

\* a handshake has just failed and its caller was told so
C9_Witness ==
  \E i \in DOMAIN out, t \in Tenants :
    /\ out[1] = Log("Cannot connect", t)
    /\ out[i].ev = "connection-error"
    /\ out[i].to # {}
    /\ out[i].tenant = t
    /\ t \notin DOMAIN connections

\* C10: disconnect(t) without an entry changes nothing; with an entry it
\* requests the teardown of the entry's handle exactly once and removes the
\* entry, whether or not the teardown throws, leaving the other entries alone
\* (so that a second disconnect(t) finds no entry and changes nothing).
C10_DisconnectIdempotent ==
  [][\A u \in Tenants :
       Disconnect(u) =>
         IF u \in DOMAIN connections
         THEN /\ Cardinality(CallsIn(out', "disconnect", u)) = 1
              /\ \A i \in CallsIn(out', "disconnect", u) :
                   out'[i].h = connections[u].connection
              /\ u \notin DOMAIN connections'
              /\ \A w \in DOMAIN connections \ {u} :
                   w \in DOMAIN connections' /\ connections'[w] = connections[w]
         ELSE /\ UNCHANGED <<boss, arena, connections, roomClients, handles, sockets, now>>
              /\ out' = <<>>]_vars

\* disconnect(t) has just removed the entry of a handle whose teardown threw
C10_Witness ==
  \E h \in DOMAIN handles :
    /\ handles[h].state = "connected"
    /\ handles[h].username \notin DOMAIN connections
    /\ out = <<UpstreamCall("disconnect", h, handles[h].username)>>

\* C11: every subscriber count is an integer >= 0 after any sequence of
\* join-room, leave-room and socket disconnects, and removeClientFromRoom on a
\* tenant whose count is 0 leaves the registry as it is.
C11_CounterFloor ==
  \A u \in Tenants :
    /\ roomClients[u] \in Nat
    /\ getClientCount(u) = 0 => removeClientFromRoom(u) = roomClients

\* a leave-room for a tenant nobody ever joined has just been handled
C11_Witness ==
  \E u \in Tenants :
    /\ joins = 0
    /\ getClientCount(u) = 0
    /\ out = <<Log("left room", u)>>

\* C12: an upstream "error" event of tenant t broadcasts one tiktok_error to
\* room t and leaves the pool (t's entry and its handle included) as it was;
\* a step that removes an entry is a disconnect (direct, janitor or SIGINT),
\* an upstream "disconnected" signal or a failed handshake.
C12_ErrorIsNotFatal ==
  [][/\ \A h \in DOMAIN handles, err \in ErrorData :
          OnError(h, err) =>
            /\ Len(out') = 1
            /\ out'[1].kind = "room" /\ out'[1].ev = "tiktok_error"
            /\ out'[1].tenant = handles[h].username
            /\ out'[1].to = RoomMembers(handles[h].username)
            /\ out'[1].payload.message = err.message
            /\ connections' = connections
            /\ handles' = handles
     /\ (\E u \in DOMAIN connections : u \notin DOMAIN connections') =>
          \/ \E u \in Tenants : Disconnect(u)
          \/ checkInactiveConnections
          \/ Shutdown
          \/ \E h \in DOMAIN handles : OnDisconnected(h)
          \/ \E h \in DOMAIN handles : HandshakeFails(h)]_vars

\* a tiktok_error has just reached a subscriber of a tenant whose entry and
\* connected handle are still in the pool
C12_Witness ==
  \E t \in DOMAIN connections :
    /\ handles[connections[t].connection].state = "connected"
    /\ Len(out) = 1
    /\ out[1].ev = "tiktok_error" /\ out[1].tenant = t /\ out[1].to # {}

\* C13: an upstream "disconnected" signal of tenant t broadcasts one
\* tiktok_disconnected to the members room t has when the signal arrives,
\* after which t has no pool entry; the other entries and every subscriber
\* count are as before.
C13_UpstreamDisconnected ==
  [][\A h \in DOMAIN handles :
       OnDisconnected(h) =>
         LET t == handles[h].username IN
         /\ Len(out') = 1
         /\ out'[1].kind = "room" /\ out'[1].ev = "tiktok_disconnected"
         /\ out'[1].tenant = t
         /\ out'[1].to = RoomMembers(t)
         /\ t \notin DOMAIN connections'
         /\ \A w \in DOMAIN connections \ {t} :
              w \in DOMAIN connections' /\ connections'[w] = connections[w]
         /\ roomClients' = roomClients]_vars

\* a tiktok_disconnected has just reached a subscriber of a tenant that is
\* still counted in the registry and has no pool entry any more
C13_Witness ==
  \E t \in Tenants :
    /\ t \notin DOMAIN connections
    /\ getClientCount(t) > 0
    /\ Len(out) = 1
    /\ out[1].ev = "tiktok_disconnected" /\ out[1].tenant = t /\ out[1].to # {}

C15_InvalidJoinRejected ==
  [][\A s \in Sockets, v \in RawUsernames :
       (/\ v.type # "string" \/ v.val = <<>>
        /\ JoinRoom(s, v) \/ JoinRoomInvalid(s, v)) =>
         /\ Len(out') = 1
         /\ out'[1].kind = "socket" /\ out'[1].ev = "error" /\ out'[1].to = {s}
         /\ sockets' = sockets
         /\ roomClients' = roomClients
         /\ connections' = connections
         /\ handles' = handles]_vars

\* a socket that sits in no room has just been told that its join-room was
\* invalid, while another tenant's room has a subscriber
C15_Witness ==
  \E s \in Sockets, t \in Tenants :
    /\ out = <<Reply(s, "error", NoUser)>>
    /\ sockets[s].status = "connected" /\ sockets[s].rooms = {}
    /\ RoomMembers(t) # {}

\* the answers of the join-room handler found in an output
Answers(o) ==
  { i \in DOMAIN o : o[i].kind = "socket" /\ o[i].ev \in {"room-joined", "connection-error"} }

\* C16: a valid join-room(t) of socket s is answered exactly once, to s only:
\* at once with room-joined when connect finds an entry; otherwise not before
\* the handshake settles, and then with room-joined if it succeeded and
\* connection-error if it failed; no other task sends such an answer.  If the
\* handshake eventually settles, the answer eventually comes unless s has
\* disconnected first.
C16_JoinAnswered ==
  /\ [][/\ \A s \in Sockets, v \in ValidRaw :
            JoinRoom(s, v) =>
              IF normalizedUsername(v) \in DOMAIN connections
              THEN /\ Cardinality(Answers(out')) = 1
                   /\ \A i \in Answers(out') :
                        /\ out'[i].ev = "room-joined" /\ out'[i].to = {s}
                        /\ out'[i].tenant = normalizedUsername(v)
              ELSE /\ Answers(out') = {}
                   /\ handles'[Len(handles')].caller = s
                   /\ handles'[Len(handles')].state = "connecting"
        /\ \A h \in DOMAIN handles :
            HandshakeSucceeds(h) \/ HandshakeFails(h) =>
              /\ Cardinality(Answers(out')) = 1
              /\ handles'[h].state # "connecting"
              /\ \A i \in Answers(out') :
                   /\ out'[i].ev = IF handles'[h].state = "connected"
                                   THEN "room-joined" ELSE "connection-error"
                   /\ out'[i].tenant = handles[h].username
                   /\ out'[i].to = IF handles[h].caller \in Sockets
                                   THEN {handles[h].caller} ELSE {}
        /\ Answers(out') # {} =>
              \/ \E s \in Sockets, v \in ValidRaw : JoinRoom(s, v)
              \/ \E h \in DOMAIN handles : HandshakeSucceeds(h) \/ HandshakeFails(h)
        /\ \A h \in DOMAIN handles :
              handles[h].caller # handles'[h].caller =>
                handles'[h].caller = 0]_vars
  /\ \A h \in 1..MaxJoins, s \in Sockets, t \in Tenants :
        (h \in DOMAIN handles /\ handles[h].state = "connecting"
           /\ handles[h].caller = s /\ handles[h].username = t)
        ~> \/ out = <<Reply(s, "room-joined", t)>>
           \/ out = <<Log("Cannot connect", t), Reply(s, "connection-error", t)>>
           \/ sockets[s].status = "free"

\* a handshake has just succeeded and the socket that asked for it, still
\* connected, got its room-joined
C16_Witness ==
  \E s \in Sockets, t \in DOMAIN connections :
    /\ sockets[s].status = "connected"
    /\ handles[connections[t].connection].state = "connected"
    /\ out = <<Reply(s, "room-joined", t)>>

\* the canonical events of the data and status callbacks other than
\* "disconnected"
ActivityEvents ==
  { "tiktok_chat", "player_join", "player_attack", "tiktok_like", "tiktok_share",
    "tiktok_gift", "gift_received", "tiktok_connected", "tiktok_error" }

\* C17: every chat, like, share, gift, connected or error event broadcast to
\* the room of a tenant that has a pool entry sets lastActivity of that entry
\* to the time of the event.
C17_EveryEventRefreshes ==
  [][\A i \in DOMAIN out' :
       (/\ out'[i].kind = "room"
        /\ out'[i].ev \in ActivityEvents
        /\ out'[i].tenant \in DOMAIN connections) =>
         /\ out'[i].tenant \in DOMAIN connections'
         /\ connections'[out'[i].tenant].lastActivity = now]_vars

\* C18: for every resolved gift value v of the range the giftType emitted is
\* small when v < 10, medium when 10 <= v < 100 and large when v >= 100
\* (9 small, 10 and 99 medium, 100 large).
C18_GiftClassification ==
  \A i \in DOMAIN out :
    out[i].ev \in {"tiktok_gift", "gift_received"} =>
      LET v == out[i].payload.giftValue IN
      /\ v \in (0 - 2)..MaxGiftValue
      /\ (v < 10 <=> out[i].payload.giftType = "small")
      /\ (10 <= v /\ v < 100 <=> out[i].payload.giftType = "medium")
      /\ (v >= 100 <=> out[i].payload.giftType = "large")
      /\ (v = 9 => out[i].payload.giftType = "small")
      /\ (v \in {10, 99} => out[i].payload.giftType = "medium")
      /\ (v = 100 => out[i].payload.giftType = "large")

\* a gift of value 100, resolved from giftValue because diamondCount was 0,
\* has just been relayed
C18_Witness ==
  \E i \in DOMAIN out :
    /\ out[i].ev = "tiktok_gift"
    /\ out[i].payload.rawData.diamondCount = <<0>>
    /\ out[i].payload.giftValue = 100
    /\ out[i].payload.giftType = "large"

\* the fields the two gift events have in common
GiftFields(payload) ==
  <<payload.user, payload.giftName, payload.giftValue, payload.repeatCount,
    payload.giftType>>

\* C19: an upstream gift event of tenant t produces exactly two events,
\* tiktok_gift and then gift_received, both for the members of room t only
\* and with the same user, giftName, giftValue, repeatCount and giftType.
C19_GiftEmittedTwice ==
  [][\A h \in DOMAIN handles, data \in GiftData :
       OnGift(h, data) =>
         LET t == handles[h].username IN
         /\ Len(out') = 2
         /\ out'[1].ev = "tiktok_gift" /\ out'[2].ev = "gift_received"
         /\ \A i \in 1..2 :
              /\ out'[i].kind = "room"
              /\ out'[i].tenant = t
              /\ out'[i].to = RoomMembers(t)
              /\ out'[i].payload.user = data.user
         /\ GiftFields(out'[1].payload) = GiftFields(out'[2].payload)]_vars

\* a gift of one tenant has just been relayed twice to its subscriber while
\* the other tenant's room has a subscriber too
C19_Witness ==
  \E s \in Sockets :
    /\ Len(out) = 2
    /\ out[1].ev = "tiktok_gift" /\ out[2].ev = "gift_received"
    /\ out[1].to # {} /\ s \notin out[1].to
    /\ sockets[s].status = "connected" /\ sockets[s].rooms # {}
    /\ out[1].payload.giftType = "large"

\* what each raw comment of WideComments reads as once lower-cased and trimmed
ExpectedComment ==
  {
    <<JsString(<<" ", "H", "i", "t">>), <<"h", "i", "t">>>>,
    <<JsString(<<"J", "O", "I", "N", " ">>), <<"j", "o", "i", "n">>>>,
    <<JsString(<<"T", "h", "a", "m", "G", "i", "a">>), <<"t", "h", "a", "m", "g", "i", "a">>>>,
    <<JsString(<<"d", "a", "n", "h", "\n">>), <<"d", "a", "n", "h">>>>,
    <<JsString(<<"\t", "A", "t", "t", "a", "c", "k">>), <<"a", "t", "t", "a", "c", "k">>>>,
    <<JsString(<<"h", "i", "t">>), <<"h", "i", "t">>>>,
    <<JsString(<<"h", "i", "t", " ", "m", "e">>), <<"h", "i", "t", " ", "m", "e">>>>,
    <<JsString(<<"j", "o", "i", "n", "e", "d">>), <<"j", "o", "i", "n", "e", "d">>>>,
    <<JsString(<<"h", " ", "i", "t">>), <<"h", " ", "i", "t">>>>,
    <<JsString(<<"g", "g">>), <<"g", "g">>>>,
    <<JsString(<<" ", " ">>), <<>>>>,
    <<JsUndefined, <<>>>>
  }

JoinCommands == { <<"j","o","i","n">>, <<"t","h","a","m","g","i","a">> }
AttackCommands == { <<"h","i","t">>, <<"d","a","n","h">>, <<"a","t","t","a","c","k">> }

\* the positions of event ev in an output
EventsIn(o, ev) == { i \in DOMAIN o : o[i].kind = "room" /\ o[i].ev = ev }

\* C20: an upstream chat event produces exactly one tiktok_chat whose comment
\* is the raw text lower-cased and trimmed, one player_join exactly when that
\* text is "join" or "thamgia", one player_attack with an integer damage of
\* 5..14 exactly when it is "hit", "danh" or "attack", and nothing else.
C20_ChatCommands ==
  (out # <<>> /\ out[1].ev = "tiktok_chat") =>
    \E pair \in ExpectedComment :
      /\ pair[1] = out[1].payload.rawData.comment
      /\ out[1].payload.comment = pair[2]
      /\ EventsIn(out, "tiktok_chat") = {1}
      /\ Cardinality(EventsIn(out, "player_join")) =
           (IF pair[2] \in JoinCommands THEN 1 ELSE 0)
      /\ Cardinality(EventsIn(out, "player_attack")) =
           (IF pair[2] \in AttackCommands THEN 1 ELSE 0)
      /\ \A i \in EventsIn(out, "player_attack") :
           out[i].payload.damage \in 5..14
      /\ Len(out) = 1 + Cardinality(EventsIn(out, "player_join"))
                      + Cardinality(EventsIn(out, "player_attack"))
      /\ \A i \in DOMAIN out : out[i].payload.user = out[1].payload.user

\* the comment "<tab>Attack" has just produced a tiktok_chat with comment
\* "attack" and a player_attack of damage 14
C20_Witness ==
  /\ Len(out) = 2
  /\ out[1].ev = "tiktok_chat"
  /\ out[1].payload.rawData.comment = JsString(<<"\t", "A", "t", "t", "a", "c", "k">>)
  /\ out[1].payload.comment = <<"a", "t", "t", "a", "c", "k">>
  /\ out[2].ev = "player_attack" /\ out[2].payload.damage = 14

\* C21: the registry operations leave the pool alone and the pool
\* operations leave the registry alone: leave-room and socket disconnect
\* (removeClientFromRoom) do not change the connections map; join-room changes
\* the counts by addClientToRoom only and the map at its own tenant only; no
\* other task (handshake continuations, upstream callbacks, the janitor
\* sweep, SIGINT) changes any count.
C21_RegistryPoolFrame ==
  [][/\ (\/ \E s \in Sockets, v \in RawUsernames : LeaveRoom(s, v)
         \/ \E s \in Sockets : SocketDisconnect(s)) =>
          connections' = connections
     /\ \A s \in Sockets, v \in ValidRaw :
          JoinRoom(s, v) =>
            /\ roomClients' = addClientToRoom(normalizedUsername(v))
            /\ \A w \in DOMAIN connections \ {normalizedUsername(v)} :
                 w \in DOMAIN connections' /\ connections'[w] = connections[w]
            /\ DOMAIN connections' = DOMAIN connections \cup {normalizedUsername(v)}
     /\ roomClients' # roomClients =>
          \/ \E s \in Sockets, v \in RawUsernames : JoinRoom(s, v) \/ LeaveRoom(s, v)
          \/ \E s \in Sockets : SocketDisconnect(s)]_vars

\* a sweep has just evicted one tenant while the count of another tenant,
\* which has no pool entry, stays above 0
C21_Witness ==
  \E u \in Tenants, i \in DOMAIN out :
    /\ out[i].ev = "Auto-disconnect"
    /\ u \notin DOMAIN connections
    /\ getClientCount(u) > 0

\* the instants of the clock
Instants == { k * ClockStep : k \in 0..MaxTicks }

\* C22: if room t has a client (a member that the registry counts) at some
\* instant, the janitor does not disconnect t at any tick less than TIMEOUT
\* after that instant.
C22_EmptyForFiveMinutes ==
  \A t \in Tenants, T \in Instants :
    []((now = T /\ getClientCount(t) > 0 /\ RoomMembers(t) # {}) =>
        [](\A i \in DOMAIN out :
             (out[i].ev = "Auto-disconnect" /\ out[i].tenant = t) =>
               now - T >= TIMEOUT))

\* C23: once the SIGINT handler has run, the pool is empty and no upstream
\* handle is connecting or connected.
C23_ShutdownClosesAll ==
  shutdown =>
    /\ connections = <<>>
    /\ \A h \in DOMAIN handles : handles[h].state = "closed"

\* C24: a janitor sweep leaves every entry whose handshake is still in flight
\* alone, whatever its count and age: the entry stays and no teardown is
\* requested on its handle.
C24_JanitorSparesConnecting ==
  [][checkInactiveConnections =>
       \A u \in DOMAIN connections :
         handles[connections[u].connection].state = "connecting" =>
           /\ u \in DOMAIN connections'
           /\ connections'[u] = connections[u]
           /\ CallsIn(out', "disconnect", u) = {}]_vars

\* C25: at every moment the count of each room equals the number of
\* connected downstream sockets that are members of that room.
C25_CountIsMembership ==
  \A t \in Tenants : getClientCount(t) = Cardinality(RoomMembers(t))

\* C26: when no downstream socket is connected any more, the count of every
\* room is 0.
C26_NoSocketsNoCounts ==
  (\A s \in Sockets : sockets[s].status # "connected") =>
    \A t \in Tenants : getClientCount(t) = 0

\* C27: a pool entry disappears only in an explicit disconnect (a direct
\* call, the janitor, the shutdown handler) or in an event of the handle
\* stored in it (its handshake failing, its "disconnected" event): a late
\* event of an older handle of the same tenant never removes the entry that
\* holds a newer handle.
C27_RemovedByOwnHandle ==
  [][\A u \in DOMAIN connections :
       u \notin DOMAIN connections' =>
         \/ Disconnect(u)
         \/ checkInactiveConnections
         \/ Shutdown
         \/ HandshakeFails(connections[u].connection)
         \/ OnDisconnected(connections[u].connection)]_vars

\* C28: every upstream handle that is connecting or connected is the handle
\* stored in the pool entry of its tenant: the pool knows every live handle.
C28_LiveHandleIsPooled ==
  \A t \in Tenants : \A h \in LiveHandles(t) :
    t \in DOMAIN connections /\ connections[t].connection = h

\* C29: room-joined is sent for tenant t only when the handshake of the handle
\* in t's pool entry has succeeded.
C29_JoinedOnlyAfterHandshake ==
  [][\A i \in DOMAIN out' :
       (out'[i].ev = "room-joined" /\ out'[i].tenant \in Tenants) =>
         /\ out'[i].tenant \in DOMAIN connections'
         /\ handles'[connections'[out'[i].tenant].connection].state = "connected"]_vars

\* C30: a connect(t) that finds no pool entry for t, whichever way an earlier
\* entry went away, stores an entry for t that holds a handle which did not
\* exist before, opens exactly one handshake, on that handle, and leaves every
\* older handle as it was.
C30_FreshHandleAfterRemoval ==
  [][\A u \in Tenants :
       u \notin DOMAIN connections =>
         /\ (\E s \in Sockets, v \in ValidRaw :
               JoinRoom(s, v) /\ normalizedUsername(v) = u) => u \in DOMAIN connections'
         /\ u \in DOMAIN connections' =>
              LET h == connections'[u].connection IN
              /\ h \notin DOMAIN handles
              /\ DOMAIN handles' = DOMAIN handles \cup {h}
              /\ handles'[h].username = u
              /\ handles'[h].state = "connecting"
              /\ ~handles'[h].cancelled
              /\ \A g \in DOMAIN handles : handles'[g] = handles[g]
              /\ { out'[i].h : i \in CallsIn(out', "connect", u) } = {h}
              /\ Cardinality(CallsIn(out', "connect", u)) = 1
              /\ Cardinality({ i \in DOMAIN out' : out'[i].kind = "upstream" }) = 1]_vars

\* a second entry of tenant t, created while the handle of the removed entry
\* is still open
C30_Witness ==
  \E u \in Tenants :
    /\ u \in DOMAIN connections
    /\ connections[u].connection = 2
    /\ handles[1].username = u
    /\ handles[1].state = "connected"
    /\ { out[i].h : i \in CallsIn(out, "connect", u) } = {2}

\* C31: a handshake for tenant t is started by a join-room(t) only.  A tenant
\* whose entry was removed, by the upstream side closing or by the janitor,
\* stays without entry and without new handle in every step that is not a
\* join-room(t), whatever the count and the members of room t.
C31_NoReconnectWithoutJoin ==
  [][\A u \in Tenants :
       (\/ u \notin DOMAIN connections /\ u \in DOMAIN connections'
        \/ CallsIn(out', "connect", u) # {}
        \/ \E h \in DOMAIN handles' \ DOMAIN handles : handles'[h].username = u) =>
         \E s \in Sockets, v \in ValidRaw :
           JoinRoom(s, v) /\ normalizedUsername(v) = u]_vars

\* the upstream side has just closed t's connection while room t has a member
\* and a positive count, and t has no entry
C31_Witness ==
  \E u \in Tenants, i \in DOMAIN out :
    /\ out[i].ev = "tiktok_disconnected" /\ out[i].tenant = u
    /\ u \notin DOMAIN connections
    /\ getClientCount(u) > 0
    /\ RoomMembers(u) # {}
    /\ LiveHandles(u) = {}

\* C32: a join-room(t) whose handshake fails is not rolled back.  The failure
\* leaves every room membership and every count as they were and t without
\* entry; a count goes down, and a socket stops being a member, only in a
\* leave-room or a socket disconnect.
C32_FailedJoinNotRolledBack ==
  [][/\ \A h \in DOMAIN handles :
          HandshakeFails(h) =>
            /\ roomClients' = roomClients
            /\ sockets' = sockets
            /\ handles[h].username \notin DOMAIN connections'
     /\ \A t \in Tenants :
          (\/ roomClients'[t] < roomClients[t]
           \/ \E s \in Sockets : t \in sockets[s].rooms /\ t \notin sockets'[s].rooms) =>
            \/ \E s \in Sockets, v \in RawUsernames : LeaveRoom(s, v)
            \/ \E s \in Sockets : SocketDisconnect(s)]_vars

\* the caller has just been told connection-error: it is still a member of
\* the room, the count still includes its join, the tenant has no entry
C32_Witness ==
  \E u \in Tenants, i \in DOMAIN out :
    /\ out[i].ev = "connection-error" /\ out[i].tenant = u
    /\ out[i].to \subseteq RoomMembers(u) /\ out[i].to # {}
    /\ getClientCount(u) >= 1
    /\ u \notin DOMAIN connections

\* C33: updateActivity for a tenant without pool entry changes nothing.  A
\* like event of a handle whose tenant has no entry leaves the pool as it is;
\* with an entry it keeps the keys, the handle of that entry and every other
\* tenant's entry.
C33_TouchWithoutEntry ==
  [][\A h \in DOMAIN handles, data \in LikeData :
       OnLike(h, data) =>
         LET u == handles[h].username IN
         /\ DOMAIN connections' = DOMAIN connections
         /\ \A w \in DOMAIN connections \ {u} : connections'[w] = connections[w]
         /\ u \notin DOMAIN connections => connections' = connections
         /\ u \in DOMAIN connections =>
              connections'[u] = [connections[u] EXCEPT !.lastActivity = now]]_vars

\* a like event of a handle that is connected outside the pool has just been
\* relayed, while another tenant has an entry that was last active earlier
C33_Witness ==
  \E u \in Tenants, w \in Tenants, i \in DOMAIN out :
    /\ out[i].ev = "tiktok_like" /\ out[i].tenant = u
    /\ u \notin DOMAIN connections
    /\ w \in DOMAIN connections
    /\ connections[w].lastActivity < now

\* C34: a social event is relayed exactly when its displayType is the
\* viewer-share subcode: then one tiktok_share with the user goes to the room
\* of the tenant and the tenant's entry, if any, is refreshed; any other
\* subtype sends nothing and changes no state.
C34_ShareFilter ==
  [][\A h \in DOMAIN handles, data \in SocialData :
       OnSocial(h, data) =>
         LET u == handles[h].username IN
         IF data.displayType = "pm_mt_msg_viewer_share"
         THEN /\ Len(out') = 1
              /\ out'[1].ev = "tiktok_share"
              /\ out'[1].kind = "room" /\ out'[1].tenant = u
              /\ out'[1].to = RoomMembers(u)
              /\ out'[1].payload.user = data.user
              /\ u \in DOMAIN connections =>
                   connections'[u] = [connections[u] EXCEPT !.lastActivity = now]
              /\ \A w \in DOMAIN connections \ {u} : connections'[w] = connections[w]
              /\ DOMAIN connections' = DOMAIN connections
         ELSE /\ out' = <<>>
              /\ connections' = connections]_vars

\* a share has just been relayed for a tenant whose entry was created earlier:
\* the entry carries the time of the share
C34_Witness ==
  \E u \in Tenants :
    /\ Len(out) = 1
    /\ out[1].ev = "tiktok_share"
    /\ out[1].tenant = u
    /\ u \in DOMAIN connections
    /\ now > 0
    /\ connections[u].lastActivity = now
    /\ RoomMembers(u) # {}

\* C35: the gift value is taken from diamondCount, else giftValue, the first
\* field that is present winning, and a value that is unknown or zero becomes
\* 1: diamondCount = 0 next to a giftValue resolves to 1.
C35_FirstNonNullWins ==
  \A i \in DOMAIN out :
    out[i].ev = "tiktok_gift" =>
      LET raw   == out[i].payload.rawData
          first == IF raw.diamondCount # <<>> THEN raw.diamondCount ELSE raw.giftValue
      IN out[i].payload.giftValue =
           IF first = <<>> \/ first[1] = 0 THEN 1 ELSE first[1]

\* C35 as the code has it: the gift value is the first of diamondCount and
\* giftValue that is present and not zero, and 1 when there is none; a
\* diamondCount of 0 gives way to giftValue, and diamondCount comes first
\* when both count.
C35_FirstNonZeroWins ==
  \A i \in DOMAIN out :
    out[i].ev = "tiktok_gift" =>
      LET d == out[i].payload.rawData.diamondCount
          g == out[i].payload.rawData.giftValue
      IN out[i].payload.giftValue =
           IF d # <<>> /\ d[1] # 0 THEN d[1]
           ELSE IF g # <<>> /\ g[1] # 0 THEN g[1]
           ELSE 1

\* a gift with diamondCount 0 and a giftValue has just been relayed with the
\* giftValue, in both events
C35_Witness ==
  /\ Len(out) = 2
  /\ out[1].ev = "tiktok_gift" /\ out[2].ev = "gift_received"
  /\ out[1].payload.rawData.diamondCount = <<0>>
  /\ out[1].payload.rawData.giftValue # <<>>
  /\ out[1].payload.giftValue = out[1].payload.rawData.giftValue[1]
  /\ out[2].payload.giftValue = out[1].payload.giftValue

\* C36: for a bridge whose socket is a member of the room, one upstream gift
\* event calls every registered "gift" handler exactly once.
C36_GiftHandlerOnce ==
  \A s \in Sockets :
    (\E i \in DOMAIN out : out[i].ev = "tiktok_gift" /\ s \in out[i].to) =>
      \A k \in DOMAIN eventHandlers.gift :
        Cardinality({ j \in DOMAIN BridgeCalls(out, s) :
                        BridgeCalls(out, s)[j].handler = eventHandlers.gift[k] }) = 1

\* C37: each boss defeat triggers exactly one respawn.  A respawn is
\* scheduled only in the step that brings currentHp from above 0 to 0, and
\* then it is the only one pending; a respawn multiplies maxHp by 1.5 (rounded
\* down) and resets currentHp to it, with no other respawn left pending; and
\* 0 <= currentHp <= maxHp in every state.
C37_OneRespawnPerDefeat ==
  [][/\ boss'.respawnTimers > boss.respawnTimers =>
          /\ boss.currentHp > 0
          /\ boss'.currentHp = 0
          /\ boss'.respawnTimers = 1
     /\ boss'.maxHp # boss.maxHp =>
          /\ boss'.maxHp = (boss.maxHp * 3) \div 2
          /\ boss'.currentHp = boss'.maxHp
          /\ boss'.respawnTimers = 0
     /\ 0 <= boss'.currentHp
     /\ boss'.currentHp <= boss'.maxHp]_vars

\* the release timers pending for key k
TimersOf(k) == { t \in arena.timers : t.keyCode = k }

\* C38: a key's state is true exactly while a release timer is pending for
\* it, and never more than one; a press leaves the key with the single timer
\* of that press, one duration ahead, whatever was pending before; a key goes
\* up only when that timer expires; and every key that is down is eventually
\* up again.
C38_KeysReleased ==
  /\ [](\A k \in KeyCodes :
          /\ arena.keyStates[k] <=> TimersOf(k) # {}
          /\ Cardinality(TimersOf(k)) <= 1
          /\ arena.keyStates[k] =>
               TimersOf(k) = {[keyCode |-> k, at |-> arena.activeKeys[k]]})
  /\ [][/\ \A p \in ArenaPresses :
            pressKey(p.keyCode, p.duration, TRUE) =>
              { t \in arena'.timers : t.keyCode = p.keyCode } =
                {[keyCode |-> p.keyCode, at |-> arena.clock + p.duration]}
        /\ \A k \in KeyCodes :
            (arena.keyStates[k] /\ ~arena'.keyStates[k]) =>
              arena.clock = arena.activeKeys[k]]_vars
  /\ \A k \in KeyCodes : arena.keyStates[k] ~> ~arena.keyStates[k]

\* W was pressed 300 ms ago, not at the start, and is still down with its one
\* timer, while FIRE and X are up with no timer
C38_Witness ==
  /\ arena.clock >= 2 * KEY_PULSE_MS
  /\ arena.keyStates[Keys.W]
  /\ arena.timers = {[keyCode |-> Keys.W, at |-> arena.clock + KEY_PULSE_MS - 300]}
  /\ ~arena.keyStates[Keys.FIRE]
  /\ ~arena.keyStates[Keys.X]

====
